---------------------------- MODULE Spec2Model ----------------------------
(***************************************************************************)
(* A model of the prime-news batch pipeline:                               *)
(*   - the prime sieve (src/build-date-index.js, lines 171-179),           *)
(*   - the ingest / filter / shard writer (lines 318-434),                 *)
(*   - the filter-manifest builder (src/build-filter-manifest.js),         *)
(*   - the date-index builder (src/build-date-index.js, lines 1-106).      *)
(* Each script is a sequential program; `stage` says which script the      *)
(* behaviour runs and `pc` where that script stands.  The ingest script    *)
(* ends by running the filter-manifest builder (line 434), so the stage    *)
(* "ingest" continues as "filter".                                         *)
(*                                                                         *)
(* JavaScript strings are TLA+ strings: template literals are \o and       *)
(* ToString, LIKE '%p%' is a substring search.  null / undefined / a field *)
(* missing from a JSON object is a field missing from the record.          *)
(***************************************************************************)
EXTENDS Integers, Sequences, FiniteSets, TLC

VARIABLES
    stage,                \* what runs: "sieve", "classify", "ingest", "filter", "date"
    pc,                   \* position of the running script
    now,                  \* the wall clock read by Date.now() / new Date()
    run,                  \* 1 for the first run of the stage, 2 for the rerun
    sieve,                \* sieve script state: [B, isPrime, i, j]
    queue,                \* the ids getPrimeType is still to be called with
    tagged,               \* the calls made: [id, pt], pt what getPrimeType returned
    files,                \* ingest input: the .json.gz files, each a sequence of lines
    fileIdx,              \* index of the file being processed
    lineIdx,              \* number of lines of that file already delivered
    collectedPrimes,      \* line 322
    primeScoreEarliest,   \* line 321, a Map kept as its insertion-ordered entries
    manifestFile,         \* ./docs/manifest.json on disk
    shards,               \* ./docs/shards: shard index -> file
    db,                   \* line 395: the handle the script holds, or NoDb
    open,                 \* the shard indices with a database handle open in the process
    currentShard,         \* line 394
    index,                \* forEach position of the shard loop (line 415)
    shardFiles,           \* build-filter-manifest.js line 19
    fpos,                 \* position in shardFiles
    manifest,             \* build-filter-manifest.js line 30
    filterManifestFile,   \* ./docs/filter-manifest.json on disk
    dmanifest,            \* date-index input: manifest.shards (line 49)
    TZ_OFFSET_MIN,        \* line 42
    dateIndex,            \* line 73
    dpos,                 \* position in manifest.shards
    dateIndexFile,        \* ./docs/date-index.json on disk
    prev                  \* the outputs the first run left, kept for comparison

vars == <<stage, pc, now, run, sieve, queue, tagged, files, fileIdx, lineIdx, collectedPrimes,
          primeScoreEarliest, manifestFile, shards, db, open, currentShard,
          index, shardFiles, fpos, manifest, filterManifestFile, dmanifest,
          TZ_OFFSET_MIN, dateIndex, dpos, dateIndexFile, prev>>

sieveVars  == <<sieve>>
classVars  == <<queue, tagged>>
ingestVars == <<files, fileIdx, lineIdx, collectedPrimes, primeScoreEarliest,
                manifestFile, shards, db, open, currentShard, index>>
filterVars == <<shardFiles, fpos, manifest, filterManifestFile>>
dateVars   == <<dmanifest, TZ_OFFSET_MIN, dateIndex, dpos, dateIndexFile>>

----------------------------------------------------------------------------
(* Bounds of the model.                                                    *)

MaxSieveBound == 30      \* largest sieve bound B the sieve script is run with
MAX_ID_ESTIMATE == 20    \* line 138 (45_000_000), scaled down
SHARD_SIZE == 2          \* line 135 (50_000), scaled down
MaxLines == 3            \* total number of input lines over all files
MaxFiles == 2            \* number of input files
MaxShards == 2           \* entries of manifest.shards read by the date index
MaxCalls == 2            \* calls of getPrimeType in a behaviour of the classifier

NoFile == [exists |-> FALSE]
NoDb == -1
EmptyMap == [k \in {} |-> <<>>]

----------------------------------------------------------------------------
(* Generic helpers: Array.prototype.sort with a numeric comparator (stable *)
(* insertion into an ordered prefix), and new Set(arr) (first occurrences). *)

RECURSIVE InsertBy(_,_,_)
InsertBy(key(_), x, s) ==
    IF s = <<>> THEN <<x>>
    ELSE IF key(x) < key(Head(s)) THEN <<x>> \o s
    ELSE <<Head(s)>> \o InsertBy(key, x, Tail(s))

RECURSIVE SortAsc(_,_)
SortAsc(key(_), s) ==
    IF s = <<>> THEN <<>>
    ELSE InsertBy(key, s[Len(s)], SortAsc(key, SubSeq(s, 1, Len(s) - 1)))

RECURSIVE Dedup(_)
Dedup(s) ==
    IF s = <<>> THEN <<>>
    ELSE LET r == Dedup(SubSeq(s, 1, Len(s) - 1))
             x == s[Len(s)]
         IN IF \E i \in 1..Len(r) : r[i] = x THEN r ELSE Append(r, x)

Range(s) == {s[i] : i \in 1..Len(s)}

SeqsUpTo(S, n) == UNION {[1..k -> S] : k \in 0..n}

\* the elements of a finite set of numbers in ascending order
RECURSIVE AscendingSeqOf(_)
AscendingSeqOf(S) ==
    IF S = {} THEN <<>>
    ELSE LET m == CHOOSE x \in S : \A y \in S : x <= y
         IN <<m>> \o AscendingSeqOf(S \ {m})

Ident(x) == x

RECURSIVE SumSeq(_)
SumSeq(s) == IF s = <<>> THEN 0 ELSE Head(s) + SumSeq(Tail(s))

----------------------------------------------------------------------------
(* 1. The prime sieve, lines 173-179.                                      *)

\* new Uint8Array(B + 1).fill(1); isPrime[0] = 0; isPrime[1] = 0;
\* (a write past the end of a typed array is ignored, so B = 0 is fine)
SieveNew(B) == [n \in 0..B |-> IF n <= 1 THEN 0 ELSE 1]

\* the outer loop condition  i * i <= MAX_ID_ESTIMATE
OuterCond(i, B) == i * i <= B

InnerStartSkipsSquare(i) == i * i + i

\* the inner loop start  j = i * i
InnerStart(i) == i * i

RECURSIVE MarkMultiples(_,_,_,_)
MarkMultiples(tab, i, j, B) ==
    IF j <= B THEN MarkMultiples([tab EXCEPT ![j] = 0], i, j + i, B) ELSE tab

RECURSIVE SieveFrom(_,_,_)
SieveFrom(tab, i, B) ==
    IF OuterCond(i, B)
    THEN SieveFrom(IF tab[i] = 1 THEN MarkMultiples(tab, i, InnerStart(i), B) ELSE tab,
                   i + 1, B)
    ELSE tab

\* the whole of lines 173-179, run to completion
Sieve(B) == SieveFrom(SieveNew(B), 2, B)

\* the sieve script stepped one loop test at a time
SieveOuterSkip ==
    /\ stage = "sieve" /\ pc = "outer"
    /\ OuterCond(sieve.i, sieve.B)
    /\ sieve.isPrime[sieve.i] = 0
    /\ sieve' = [sieve EXCEPT !.i = @ + 1]
    /\ UNCHANGED <<stage, pc, now, run, prev>>
    /\ UNCHANGED <<classVars, ingestVars, filterVars, dateVars>>

SieveOuterEnter ==
    /\ stage = "sieve" /\ pc = "outer"
    /\ OuterCond(sieve.i, sieve.B)
    /\ sieve.isPrime[sieve.i] = 1
    /\ sieve' = [sieve EXCEPT !.j = InnerStart(sieve.i)]
    /\ pc' = "inner"
    /\ UNCHANGED <<stage, now, run, prev>>
    /\ UNCHANGED <<classVars, ingestVars, filterVars, dateVars>>

SieveMark ==
    /\ stage = "sieve" /\ pc = "inner"
    /\ sieve.j <= sieve.B
    /\ sieve' = [sieve EXCEPT !.isPrime[sieve.j] = 0, !.j = @ + sieve.i]
    /\ UNCHANGED <<stage, pc, now, run, prev>>
    /\ UNCHANGED <<classVars, ingestVars, filterVars, dateVars>>

SieveInnerExit ==
    /\ stage = "sieve" /\ pc = "inner"
    /\ sieve.j > sieve.B
    /\ sieve' = [sieve EXCEPT !.i = @ + 1]
    /\ pc' = "outer"
    /\ UNCHANGED <<stage, now, run, prev>>
    /\ UNCHANGED <<classVars, ingestVars, filterVars, dateVars>>

SieveFinish ==
    /\ stage = "sieve" /\ pc = "outer"
    /\ ~OuterCond(sieve.i, sieve.B)
    /\ pc' = "done"
    /\ UNCHANGED <<stage, now, run, prev, sieve>>
    /\ UNCHANGED <<classVars, ingestVars, filterVars, dateVars>>

\* the table the ingest script uses
isPrime == Sieve(MAX_ID_ESTIMATE)

\* isPrime[x] as a JavaScript truth value: an index outside the table reads
\* undefined
IsPrimeAt(x) == x \in DOMAIN isPrime /\ isPrime[x] = 1

\* trial division, the oracle the sieve is compared with
TrialPrime(n) == n >= 2 /\ \A d \in 2..(n - 1) : n % d # 0

----------------------------------------------------------------------------
(* Idle values of the variables of the scripts that are not running.       *)

IdleSieve  == sieve = [B |-> 0, isPrime |-> SieveNew(0), i |-> 2, j |-> 0]
IdleClassify == queue = <<>> /\ tagged = <<>>
IdleIngest ==
    /\ files = <<>> /\ fileIdx = 0 /\ lineIdx = 0
    /\ collectedPrimes = <<>> /\ primeScoreEarliest = <<>>
    /\ manifestFile = NoFile /\ shards = EmptyMap
    /\ db = NoDb /\ open = {} /\ currentShard = -1 /\ index = 0
IdleFilter ==
    /\ shardFiles = <<>> /\ fpos = 0 /\ manifest = EmptyMap
    /\ filterManifestFile = NoFile
IdleDate ==
    /\ dmanifest = <<>> /\ TZ_OFFSET_MIN = 0 /\ dateIndex = EmptyMap
    /\ dpos = 0 /\ dateIndexFile = NoFile

----------------------------------------------------------------------------
(* 2. The special-prime classifiers, lines 181-314.                        *)

Huge == 1000 * 1000 * 1000

\* Math.pow(b, e) for integers b >= 1, e >= 0; values above Huge are only
\* ever compared with numbers below MAX_ID_ESTIMATE and are cut to Huge
RECURSIVE Pow(_,_)
Pow(b, e) ==
    IF e = 0 THEN 1
    ELSE LET r == Pow(b, e - 1) IN IF r > Huge \div b THEN Huge ELSE r * b

\* (m / 2)^k <= num / den, for m >= 3
RECURSIVE HalfPowLe(_,_,_,_)
HalfPowLe(m, k, num, den) ==
    IF k = 0 THEN den <= num
    ELSE IF num < den THEN FALSE
    ELSE HalfPowLe(m, k - 1, 2 * num, m * den)

\* Math.round(Math.pow(base, 1 / k)) for base >= 2, k >= 2: the integer p
\* with p - 1/2 <= base^(1/k) < p + 1/2
RoundRoot(base, k) ==
    CHOOSE p \in 1..base :
        /\ (p = 1 \/ HalfPowLe(2 * p - 1, k, base, 1))
        /\ ~HalfPowLe(2 * p + 1, k, base, 1)

\* lines 185-186
MERSENNE_EXPONENTS == <<2, 3, 5, 7, 13, 17, 19, 31>>
MERSENNE_PRIMES ==
    {n \in {Pow(2, MERSENNE_EXPONENTS[x]) - 1 : x \in 1..Len(MERSENNE_EXPONENTS)} :
        n <= MAX_ID_ESTIMATE}

\* line 190
FERMAT_PRIMES == {3, 5, 17, 257, 65537}

isSophieGermainOfAnyNumber(p) ==
    LET q == 2 * p + 1 IN q <= MAX_ID_ESTIMATE /\ IsPrimeAt(q)

\* lines 194-198
isSophieGermain(p) ==
    IF ~IsPrimeAt(p) THEN FALSE
    ELSE LET q == 2 * p + 1 IN q <= MAX_ID_ESTIMATE /\ IsPrimeAt(q)

RECURSIVE Reverse(_)
Reverse(str) ==
    IF Len(str) = 0 THEN ""
    ELSE Reverse(SubSeq(str, 2, Len(str))) \o SubSeq(str, 1, 1)

isPalindromeByLength(n) ==
    LET str == ToString(n) IN Len(str) = Len(Reverse(str))

\* lines 201-204
isPalindrome(n) == LET str == ToString(n) IN str = Reverse(str)

\* lines 208-220, from exponent k on
RECURSIVE PkkFrom(_,_)
PkkFrom(n, k) ==
    IF k > 40 \/ k >= n THEN <<>>
    ELSE LET base == n - k IN
         IF base < 2 THEN PkkFrom(n, k + 2)
         ELSE LET p == RoundRoot(base, k) IN
              IF p >= 2 /\ Pow(p, k) + k = n /\ IsPrimeAt(p)
              THEN <<[p |-> p, k |-> k]>> \o PkkFrom(n, k + 2)
              ELSE PkkFrom(n, k + 2)

getPkkRepresentations(n) == PkkFrom(n, 2)

\* lines 232-239: the search over k for one base; <<>> when there is no match
RECURSIVE PowerOfPrimeFrom(_,_,_)
PowerOfPrimeFrom(base, k, kmax) ==
    IF k > kmax THEN <<>>
    ELSE LET p == RoundRoot(base, k) IN
         IF p < 2 THEN <<>>
         ELSE IF Pow(p, k) = base /\ IsPrimeAt(p) THEN <<[p |-> p, k |-> k]>>
         ELSE PowerOfPrimeFrom(base, k + 1, kmax)

\* lines 224-242: the matches in the order of Object.entries (e ascending)
RECURSIVE PkPlusEFrom(_,_)
PkPlusEFrom(n, x) ==
    LET fixedE == <<2, 4, 6, 8, 10, 12>> IN
    IF x > Len(fixedE) THEN <<>>
    ELSE LET e == fixedE[x]
             base == n - e
             m == IF base < 2 THEN <<>> ELSE PowerOfPrimeFrom(base, 2, 30)
         IN (IF m = <<>> THEN <<>> ELSE <<[e |-> e, p |-> m[1].p, k |-> m[1].k]>>)
               \o PkPlusEFrom(n, x + 1)

getPkPlusEFixed(n) == PkPlusEFrom(n, 1)

\* lines 248-256: the loop over e for one k; <<>> (no match, next k) or a match.
\* `continue` on base < 2: every later e gives a smaller base, so the rest of
\* the loop over e does nothing
RECURSIVE PkEk2Inner(_,_,_)
PkEk2Inner(n, k, e) ==
    IF e > k * k THEN <<>>
    ELSE LET base == n - e IN
         IF base < 2 THEN <<>>
         ELSE LET p == RoundRoot(base, k) IN
              IF p < 2 THEN <<>>
              ELSE IF Pow(p, k) = base /\ IsPrimeAt(p)
                   THEN <<[p |-> p, k |-> k, e |-> e]>>
              ELSE PkEk2Inner(n, k, e + 2)

RECURSIVE PkEk2From(_,_)
PkEk2From(n, k) ==
    IF k > 20 THEN <<>>
    ELSE LET m == PkEk2Inner(n, k, 2) IN
         IF m # <<>> THEN m ELSE PkEk2From(n, k + 1)

\* lines 245-259; <<>> is null
getPkEk2(n) == PkEk2From(n, 2)

\* lines 264-273: the loop over p for one k
RECURSIVE PkEsqrtInner(_,_,_)
PkEsqrtInner(n, k, p) ==
    IF p >= 100000 THEN <<>>
    ELSE IF ~IsPrimeAt(p) THEN PkEsqrtInner(n, k, p + 1)
    ELSE LET pk == Pow(p, k) IN
         IF pk >= n THEN <<>>
         ELSE LET e == n - pk IN
              \* e < Math.sqrt(p)  <=>  e * e < p  for e > 0
              IF e > 0 /\ e % 2 = 0 /\ e * e < p
              THEN <<[p |-> p, k |-> k, e |-> e]>>
              ELSE PkEsqrtInner(n, k, p + 1)

RECURSIVE PkEsqrtFrom(_,_)
PkEsqrtFrom(n, k) ==
    IF k > 20 THEN <<>>
    ELSE LET m == PkEsqrtInner(n, k, 2) IN
         IF m # <<>> THEN m ELSE PkEsqrtFrom(n, k + 1)

\* lines 262-276; <<>> is null
getPkEsqrt(n) == PkEsqrtFrom(n, 2)

RECURSIVE Join(_)
Join(types) ==
    IF Len(types) = 1 THEN types[1]
    ELSE types[1] \o "," \o Join(Tail(types))

RECURSIVE MapSeq(_,_)
MapSeq(f(_), s) == IF s = <<>> THEN <<>> ELSE <<f(Head(s))>> \o MapSeq(f, Tail(s))

\* lines 279-311: the list `types`
PrimeTypes(n) ==
    LET pkkTok(r)  == "pkk:" \o ToString(r.p) \o "-" \o ToString(r.k)
        pkeTok(r)  == "pk" \o ToString(r.e) \o ":" \o ToString(r.p) \o "-" \o ToString(r.k)
        k2Tok(r)   == "pkek2:" \o ToString(r.p) \o "-" \o ToString(r.k) \o "-" \o ToString(r.e)
        sqTok(r)   == "pkesqrt:" \o ToString(r.p) \o "-" \o ToString(r.k) \o "-" \o ToString(r.e)
    IN (IF n \in MERSENNE_PRIMES THEN <<"mersenne">> ELSE <<>>)
       \o (IF n \in FERMAT_PRIMES THEN <<"fermat">> ELSE <<>>)
       \o (IF isSophieGermain(n) THEN <<"germain">> ELSE <<>>)
       \o (IF isPalindrome(n) THEN <<"palindrome">> ELSE <<>>)
       \o MapSeq(pkkTok, getPkkRepresentations(n))
       \o MapSeq(pkeTok, getPkPlusEFixed(n))
       \o MapSeq(k2Tok, getPkEk2(n))
       \o MapSeq(sqTok, getPkEsqrt(n))

\* line 313: the joined string, or null: [null |-> TRUE]
getPrimeType(id) ==
    LET types == PrimeTypes(id) IN
    IF Len(types) > 0 THEN [null |-> FALSE, str |-> Join(types)] ELSE [null |-> TRUE]

\* line 350, for any id the sieve table covers: one call of getPrimeType
ClassifyNext ==
    /\ stage = "classify" /\ queue # <<>>
    /\ tagged' = Append(tagged, [id |-> Head(queue), pt |-> getPrimeType(Head(queue))])
    /\ queue' = Tail(queue)
    /\ UNCHANGED <<stage, pc, now, run, prev>>
    /\ UNCHANGED <<sieveVars, ingestVars, filterVars, dateVars>>

----------------------------------------------------------------------------
(* 3. The ingest / filter / shard writer, lines 318-434.                   *)
(* A line is [json |-> FALSE] when JSON.parse throws on it, and            *)
(* [json |-> TRUE, item |-> r] otherwise; r has id, type and time and may  *)
(* have score, title and by.  No record of the model has a text field, so  *)
(* the snippet of lines 337-339 is never taken.                            *)

\* line 333
Retained(item) == item.id < MAX_ID_ESTIMATE /\ IsPrimeAt(item.id)

\* lines 336-351: the object pushed onto collectedPrimes; pt is missing when
\* getPrimeType returns null.  getPrimeType is a pure function of the id and
\* is called on retained ids only: PrimeTypeOf is its table over those the
\* sieve covers
PrimeTypeOf == [id \in 0..MAX_ID_ESTIMATE |-> getPrimeType(id)]

Candidate(item) ==
    LET pt == PrimeTypeOf[item.id]
        c  == [id |-> item.id,
               t  |-> IF "title" \in DOMAIN item THEN item.title ELSE "[Untitled]",
               u  |-> IF "by" \in DOMAIN item THEN item.by ELSE "anon",
               s  |-> IF "score" \in DOMAIN item THEN item.score ELSE 0,
               d  |-> item.time,
               ty |-> item.type]
    IN IF pt.null THEN c ELSE c @@ [pt |-> pt.str]

\* line 352: Number(item.score) || 0
ScoreOf(item) == IF "score" \in DOMAIN item THEN item.score ELSE 0

ReplacesIgnoringId(item, existing) == item.time < existing.time

\* line 355, for an existing entry
Replaces(item, existing) ==
    \/ item.time < existing.time
    \/ (item.time = existing.time /\ item.id < existing.id)

\* lines 352-358 on the Map primeScoreEarliest (entries in insertion order;
\* set() on a present key keeps its place)
UpdateEarliest(map, item) ==
    LET score == ScoreOf(item) IN
    IF item.type = "story" /\ score >= 2 /\ IsPrimeAt(score)
    THEN LET at == {k \in 1..Len(map) : map[k].score = score}
             e  == [id |-> item.id, score |-> score, time |-> item.time]
         IN IF at = {} THEN Append(map, e)
            ELSE LET k == CHOOSE k \in at : TRUE
                 IN IF Replaces(item, map[k]) THEN [map EXCEPT ![k] = e] ELSE map
    ELSE map

\* line 378
WithSuffix(c, suffix) ==
    IF "pt" \in DOMAIN c
    THEN [c EXCEPT !.pt = @ \o "," \o suffix]
    ELSE c @@ [pt |-> suffix]

\* lines 373-379: idToPrime keeps the last record of an id
RECURSIVE ApplyPosts(_,_)
ApplyPosts(items, entries) ==
    IF entries = <<>> THEN items
    ELSE LET entry  == Head(entries)
             at     == {k \in 1..Len(items) : items[k].id = entry.id}
             suffix == "posts:" \o ToString(entry.score) \o "-" \o ToString(entry.time)
         IN IF at = {} THEN ApplyPosts(items, Tail(entries))
            ELSE LET k == CHOOSE k \in at : \A j \in at : j <= k
                 IN ApplyPosts([items EXCEPT ![k] = WithSuffix(items[k], suffix)],
                               Tail(entries))

IdOf(c) == c.id

\* line 384
SortById(items) == SortAsc(IdOf, items)

ShardNeededOffByOne(i) == (i + 1) \div SHARD_SIZE

\* line 416
ShardNeeded(i) == i \div SHARD_SIZE

ReopenedShardFile(dir, shardIdx) ==
    IF shardIdx \in DOMAIN dir
    THEN [dir[shardIdx] EXCEPT !.committed = FALSE, !.run = run]
    ELSE [rows |-> <<>>, committed |-> FALSE, run |-> run]

\* lines 402-409: the file openDb leaves at dbPath: any file there is
\* unlinked, a new database is created and a transaction begun.  `run` notes
\* which run wrote the file
NewShardFile(dir, shardIdx) == [rows |-> <<>>, committed |-> FALSE, run |-> run]

\* line 424: the row bound to the INSERT; prime_type is NULL when pt is missing
Row(i, c) ==
    LET r == [idx |-> i, id |-> c.id, title |-> c.t, user |-> c.u, score |-> c.s,
              time |-> c.d, type |-> c.ty]
    IN IF "pt" \in DOMAIN c THEN r @@ [prime_type |-> c.pt] ELSE r

CurrentLine == files[fileIdx][lineIdx + 1]

\* lines 368-370: the next file is opened (processFile)
NextFile ==
    /\ stage = "ingest" /\ pc = "files"
    /\ fileIdx < Len(files)
    /\ fileIdx' = fileIdx + 1 /\ lineIdx' = 0
    /\ pc' = "lines"
    /\ UNCHANGED <<stage, now, run, prev, files, collectedPrimes, primeScoreEarliest,
                   manifestFile, shards, db, open, currentShard, index>>
    /\ UNCHANGED <<sieveVars, classVars, filterVars, dateVars>>

\* lines 330-360, JSON.parse throws and the catch ignores the line
ReadBadLine ==
    /\ stage = "ingest" /\ pc = "lines"
    /\ lineIdx < Len(files[fileIdx])
    /\ ~CurrentLine.json
    /\ lineIdx' = lineIdx + 1
    /\ UNCHANGED <<stage, pc, now, run, prev, files, fileIdx, collectedPrimes,
                   primeScoreEarliest, manifestFile, shards, db, open, currentShard, index>>
    /\ UNCHANGED <<sieveVars, classVars, filterVars, dateVars>>

\* lines 330-360, the test of line 333 fails
ReadOtherLine ==
    /\ stage = "ingest" /\ pc = "lines"
    /\ lineIdx < Len(files[fileIdx])
    /\ CurrentLine.json /\ ~Retained(CurrentLine.item)
    /\ lineIdx' = lineIdx + 1
    /\ UNCHANGED <<stage, pc, now, run, prev, files, fileIdx, collectedPrimes,
                   primeScoreEarliest, manifestFile, shards, db, open, currentShard, index>>
    /\ UNCHANGED <<sieveVars, classVars, filterVars, dateVars>>

\* lines 330-360, the record is kept
ReadPrimeLine ==
    /\ stage = "ingest" /\ pc = "lines"
    /\ lineIdx < Len(files[fileIdx])
    /\ CurrentLine.json /\ Retained(CurrentLine.item)
    /\ collectedPrimes' = Append(collectedPrimes, Candidate(CurrentLine.item))
    /\ primeScoreEarliest' = UpdateEarliest(primeScoreEarliest, CurrentLine.item)
    /\ lineIdx' = lineIdx + 1
    /\ UNCHANGED <<stage, pc, now, run, prev, files, fileIdx, manifestFile, shards,
                   db, open, currentShard, index>>
    /\ UNCHANGED <<sieveVars, classVars, filterVars, dateVars>>

\* line 363: the stream closes and processFile resolves
CloseFile ==
    /\ stage = "ingest" /\ pc = "lines"
    /\ lineIdx = Len(files[fileIdx])
    /\ pc' = "files"
    /\ UNCHANGED <<stage, now, run, prev, files, fileIdx, lineIdx, collectedPrimes,
                   primeScoreEarliest, manifestFile, shards, db, open, currentShard, index>>
    /\ UNCHANGED <<sieveVars, classVars, filterVars, dateVars>>

\* lines 372-379
PostPass ==
    /\ stage = "ingest" /\ pc = "files"
    /\ fileIdx = Len(files)
    /\ collectedPrimes' = ApplyPosts(collectedPrimes, primeScoreEarliest)
    /\ pc' = "sort"
    /\ UNCHANGED <<stage, now, run, prev, files, fileIdx, lineIdx, primeScoreEarliest,
                   manifestFile, shards, db, open, currentShard, index>>
    /\ UNCHANGED <<sieveVars, classVars, filterVars, dateVars>>

\* lines 384-392 when collectedPrimes is empty: reading .id of
\* collectedPrimes[-1] throws a TypeError, which ends the script
ManifestThrows ==
    /\ stage = "ingest" /\ pc = "sort"
    /\ collectedPrimes = <<>>
    /\ pc' = "crashed"
    /\ UNCHANGED <<stage, now, run, prev, files, fileIdx, lineIdx, collectedPrimes,
                   primeScoreEarliest, manifestFile, shards, db, open, currentShard, index>>
    /\ UNCHANGED <<sieveVars, classVars, filterVars, dateVars>>

\* lines 384-392
SortAndWriteManifest ==
    /\ stage = "ingest" /\ pc = "sort"
    /\ collectedPrimes # <<>>
    /\ collectedPrimes' = SortById(collectedPrimes)
    /\ manifestFile' = [exists |-> TRUE,
                        totalPrimes |-> Len(collectedPrimes),
                        shardSize |-> SHARD_SIZE,
                        maxId |-> collectedPrimes'[Len(collectedPrimes)].id,
                        generatedAt |-> now,
                        run |-> run]
    /\ pc' = "open0"
    /\ UNCHANGED <<stage, now, run, prev, files, fileIdx, lineIdx, primeScoreEarliest,
                   shards, db, open, currentShard, index>>
    /\ UNCHANGED <<sieveVars, classVars, filterVars, dateVars>>

\* line 400 inside openDb(shardNeeded): the previous handle is closed
OpenDbClose ==
    /\ stage = "ingest" /\ pc = "switch"
    /\ db # NoDb
    /\ db' = NoDb /\ open' = open \ {db}
    /\ UNCHANGED <<stage, pc, now, run, prev, files, fileIdx, lineIdx, collectedPrimes,
                   primeScoreEarliest, manifestFile, shards, currentShard, index>>
    /\ UNCHANGED <<sieveVars, classVars, filterVars, dateVars>>

\* lines 402-409 and 413 / 421: openDb(0) before the loop, openDb(shardNeeded)
\* in it, once no handle is open
OpenDbCreate ==
    /\ stage = "ingest"
    /\ \/ pc = "open0"
       \/ pc = "switch" /\ db = NoDb
    /\ LET shardIdx == IF pc = "open0" THEN 0 ELSE ShardNeeded(index) IN
       /\ shards' = [k \in DOMAIN shards \cup {shardIdx} |->
                        IF k = shardIdx THEN NewShardFile(shards, shardIdx)
                        ELSE shards[k]]
       /\ db' = shardIdx /\ open' = open \cup {shardIdx}
       /\ currentShard' = shardIdx
    /\ pc' = "loop"
    /\ UNCHANGED <<stage, now, run, prev, files, fileIdx, lineIdx, collectedPrimes,
                   primeScoreEarliest, manifestFile, index>>
    /\ UNCHANGED <<sieveVars, classVars, filterVars, dateVars>>

LoopSwitchWithoutCommit ==
    /\ stage = "ingest" /\ pc = "loop"
    /\ index < Len(collectedPrimes)
    /\ ShardNeeded(index) # currentShard
    /\ pc' = "switch"
    /\ UNCHANGED <<stage, now, run, prev, files, fileIdx, lineIdx, collectedPrimes,
                   primeScoreEarliest, manifestFile, shards, db, open, currentShard, index>>
    /\ UNCHANGED <<sieveVars, classVars, filterVars, dateVars>>

\* lines 416-419: the item belongs to the next shard; COMMIT
LoopCommit ==
    /\ stage = "ingest" /\ pc = "loop"
    /\ index < Len(collectedPrimes)
    /\ ShardNeeded(index) # currentShard
    /\ shards' = [shards EXCEPT ![db].committed = TRUE]
    /\ pc' = "switch"
    /\ UNCHANGED <<stage, now, run, prev, files, fileIdx, lineIdx, collectedPrimes,
                   primeScoreEarliest, manifestFile, db, open, currentShard, index>>
    /\ UNCHANGED <<sieveVars, classVars, filterVars, dateVars>>

\* line 424 (forEach indices start at 0, sequences at 1)
Insert ==
    /\ stage = "ingest" /\ pc = "loop"
    /\ index < Len(collectedPrimes)
    /\ ShardNeeded(index) = currentShard
    /\ shards' = [shards EXCEPT ![db].rows =
                      Append(@, Row(index, collectedPrimes[index + 1]))]
    /\ index' = index + 1
    /\ UNCHANGED <<stage, pc, now, run, prev, files, fileIdx, lineIdx, collectedPrimes,
                   primeScoreEarliest, manifestFile, db, open, currentShard>>
    /\ UNCHANGED <<sieveVars, classVars, filterVars, dateVars>>

\* line 427
FinalCommit ==
    /\ stage = "ingest" /\ pc = "loop"
    /\ index = Len(collectedPrimes)
    /\ shards' = [shards EXCEPT ![db].committed = TRUE]
    /\ pc' = "close"
    /\ UNCHANGED <<stage, now, run, prev, files, fileIdx, lineIdx, collectedPrimes,
                   primeScoreEarliest, manifestFile, db, open, currentShard, index>>
    /\ UNCHANGED <<sieveVars, classVars, filterVars, dateVars>>

\* lines 428-434: the handle is closed and build-filter-manifest.js is run
FinalClose ==
    /\ stage = "ingest" /\ pc = "close"
    /\ db' = NoDb /\ open' = open \ {db}
    /\ stage' = "filter" /\ pc' = "start"
    /\ UNCHANGED <<now, run, prev, files, fileIdx, lineIdx, collectedPrimes,
                   primeScoreEarliest, manifestFile, shards, currentShard, index>>
    /\ UNCHANGED <<sieveVars, classVars, filterVars, dateVars>>

----------------------------------------------------------------------------
(* 3b. The filter-manifest builder, src/build-filter-manifest.js.          *)

\* lines 10-14
FILTER_TYPES == <<"mersenne", "fermat", "germain", "palindrome",
                  "pkk", "pk2", "pk4", "pk6", "pk8", "pk10", "pk12",
                  "pkek2", "pkesqrt">>

Digits == {"0", "1", "2", "3", "4", "5", "6", "7", "8", "9"}

\* line 53: filter.startsWith('pk') && /^pk\d+$/.test(filter)
IsPkDigits(filter) ==
    /\ Len(filter) >= 3
    /\ SubSeq(filter, 1, 2) = "pk"
    /\ \A x \in 3..Len(filter) : SubSeq(filter, x, x) \in Digits

\* lines 48-61: the text between the % signs of the LIKE clause; "" when the
\* filter falls through to `continue`
LikePattern(filter) ==
    IF filter \in {"mersenne", "fermat", "germain", "palindrome"} THEN filter
    ELSE IF filter = "pkk" THEN "pkk:"
    ELSE IF IsPkDigits(filter) THEN filter \o ":"
    ELSE IF filter = "pkek2" THEN "pkek2:"
    ELSE IF filter = "pkesqrt" THEN "pkesqrt:"
    ELSE ""

\* str LIKE '%pat%' (every tag and every pattern is lower-case ASCII)
Like(str, pat) ==
    \E x \in 1..(Len(str) - Len(pat) + 1) : SubSeq(str, x, x + Len(pat) - 1) = pat

\* line 63: SELECT COUNT(*) FROM items WHERE prime_type LIKE '%pat%'; a NULL
\* prime_type matches nothing
CountLike(rows, pat) ==
    Cardinality({k \in 1..Len(rows) :
                    "prime_type" \in DOMAIN rows[k] /\ Like(rows[k].prime_type, pat)})

CumulativeForgetsTotal(total, count) == count

\* line 67
Cumulative(total, count) == total + count

\* lines 46-75: the loop over FILTER_TYPES for one shard, from filter x on
RECURSIVE ScanFilters(_,_,_,_)
ScanFilters(man, x, shardIdx, rows) ==
    IF x > Len(FILTER_TYPES) THEN man
    ELSE LET filter == FILTER_TYPES[x]
             pat    == LikePattern(filter)
         IN IF pat = "" THEN ScanFilters(man, x + 1, shardIdx, rows)
            ELSE LET count == CountLike(rows, pat) IN
                 IF count > 0
                 THEN LET cumulative == Cumulative(man[filter].total, count)
                      IN ScanFilters(
                            [man EXCEPT ![filter] =
                                [total  |-> cumulative,
                                 shards |-> Append(@.shards,
                                                   [idx |-> shardIdx, count |-> count,
                                                    cumulative |-> cumulative])]],
                            x + 1, shardIdx, rows)
                 ELSE ScanFilters(man, x + 1, shardIdx, rows)

\* lines 19-36: readdirSync, the name filter, the numeric sort; the empty
\* manifest
FilterStart ==
    /\ stage = "filter" /\ pc = "start"
    /\ shardFiles' = AscendingSeqOf(DOMAIN shards)
    /\ manifest' = [f \in Range(FILTER_TYPES) |-> [total |-> 0, shards |-> <<>>]]
    /\ fpos' = 1
    /\ pc' = "scan"
    /\ UNCHANGED <<stage, now, run, prev, filterManifestFile>>
    /\ UNCHANGED <<sieveVars, classVars, ingestVars, dateVars>>

\* lines 39-78 for one shard file
FilterScanShard ==
    /\ stage = "filter" /\ pc = "scan"
    /\ fpos <= Len(shardFiles)
    /\ manifest' = ScanFilters(manifest, 1, shardFiles[fpos],
                               shards[shardFiles[fpos]].rows)
    /\ fpos' = fpos + 1
    /\ UNCHANGED <<stage, pc, now, run, prev, shardFiles, filterManifestFile>>
    /\ UNCHANGED <<sieveVars, classVars, ingestVars, dateVars>>

\* line 42 or 63 throws (the file cannot be opened or read): nothing catches
\* it, the script ends and execSync throws in the ingest script
FilterShardThrows ==
    /\ stage = "filter" /\ pc = "scan"
    /\ fpos <= Len(shardFiles)
    /\ pc' = "crashed"
    /\ UNCHANGED <<stage, now, run, prev, filterVars>>
    /\ UNCHANGED <<sieveVars, classVars, ingestVars, dateVars>>

\* line 86
FilterWrite ==
    /\ stage = "filter" /\ pc = "scan"
    /\ fpos > Len(shardFiles)
    /\ filterManifestFile' = [exists |-> TRUE, filters |-> manifest, run |-> run]
    /\ pc' = "done"
    /\ UNCHANGED <<stage, now, run, prev, shardFiles, fpos, manifest>>
    /\ UNCHANGED <<sieveVars, classVars, ingestVars, dateVars>>

\* the ingest script is run again on the same input files into the same
\* output directory, at a later reading of the clock
IngestRerun ==
    /\ stage = "filter" /\ pc = "done" /\ run = 1
    /\ prev' = [exists |-> TRUE, manifest |-> manifestFile, shards |-> shards,
                filter |-> filterManifestFile]
    /\ run' = 2
    /\ now' = now + 1
    /\ stage' = "ingest" /\ pc' = "files"
    /\ fileIdx' = 0 /\ lineIdx' = 0
    /\ collectedPrimes' = <<>> /\ primeScoreEarliest' = <<>>
    /\ db' = NoDb /\ open' = {} /\ currentShard' = -1 /\ index' = 0
    /\ shardFiles' = <<>> /\ fpos' = 0 /\ manifest' = EmptyMap
    /\ UNCHANGED <<files, manifestFile, shards, filterManifestFile>>
    /\ UNCHANGED <<sieveVars, classVars, dateVars>>

\* the ingest script is run again into the same output directory after the
\* export directory has lost its last files (a smaller export, a sample)
IngestRunAgain ==
    /\ stage = "filter" /\ pc = "done" /\ run = 1
    /\ \E k \in 0..Len(files) : files' = SubSeq(files, 1, k)
    /\ prev' = [exists |-> TRUE, manifest |-> manifestFile, shards |-> shards,
                filter |-> filterManifestFile]
    /\ run' = 2
    /\ now' = now + 1
    /\ stage' = "ingest" /\ pc' = "files"
    /\ fileIdx' = 0 /\ lineIdx' = 0
    /\ collectedPrimes' = <<>> /\ primeScoreEarliest' = <<>>
    /\ db' = NoDb /\ open' = {} /\ currentShard' = -1 /\ index' = 0
    /\ shardFiles' = <<>> /\ fpos' = 0 /\ manifest' = EmptyMap
    /\ UNCHANGED <<manifestFile, shards, filterManifestFile>>
    /\ UNCHANGED <<sieveVars, classVars, dateVars>>

\* the records of the export the model draws its lines from
Corpus ==
    { [json |-> FALSE],
      [json |-> TRUE, item |-> [id |-> 2, type |-> "story", score |-> 7, time |-> 10,
                                title |-> "Show HN", by |-> "pg"]],
      [json |-> TRUE, item |-> [id |-> 3, type |-> "story", score |-> 7, time |-> 10]],
      [json |-> TRUE, item |-> [id |-> 5, type |-> "story", score |-> 7, time |-> 5]],
      [json |-> TRUE, item |-> [id |-> 11, type |-> "comment", score |-> 7, time |-> 1]],
      [json |-> TRUE, item |-> [id |-> 13, type |-> "story", score |-> 23, time |-> 2]],
      [json |-> TRUE, item |-> [id |-> 4, type |-> "story", score |-> 7, time |-> 0]],
      [json |-> TRUE, item |-> [id |-> 23, type |-> "story", time |-> 4]] }

\* identifiers are unique in the export
UniqueIds(lines) ==
    \A a, b \in 1..Len(lines) :
        (a # b /\ lines[a].json /\ lines[b].json) => lines[a].item.id # lines[b].item.id

InitIngest ==
    /\ stage = "ingest" /\ pc = "files" /\ now = 0 /\ run = 1 /\ prev = NoFile
    /\ \E lines \in {l \in SeqsUpTo(Corpus, MaxLines) : UniqueIds(l)} :
       \E nf \in 0..MaxFiles :
       \E cuts \in [1..(nf + 1) -> 0..Len(lines)] :
          /\ cuts[1] = 0 /\ cuts[nf + 1] = Len(lines)
          /\ \A x \in 1..nf : cuts[x] <= cuts[x + 1]
          \* an empty file only as the single file of an empty export
          /\ \A x \in 1..nf : cuts[x] = cuts[x + 1] => nf = 1
          /\ files = [x \in 1..nf |-> SubSeq(lines, cuts[x] + 1, cuts[x + 1])]
    /\ fileIdx = 0 /\ lineIdx = 0
    /\ collectedPrimes = <<>> /\ primeScoreEarliest = <<>>
    /\ manifestFile = NoFile /\ shards = EmptyMap
    /\ db = NoDb /\ open = {} /\ currentShard = -1 /\ index = 0
    /\ IdleSieve /\ IdleClassify /\ IdleFilter /\ IdleDate

----------------------------------------------------------------------------
(* 4. The date-index builder, src/build-date-index.js lines 40-106.        *)

\* line 55
pad2(n) == IF n < 10 THEN "0" \o ToString(n) ELSE ToString(n)

\* new Date(ms).getUTCFullYear() / getUTCMonth() + 1 / getUTCDate() for the
\* instant that lies in day number dayNo (days since 1970-01-01, may be
\* negative): the proleptic Gregorian calendar
UTCDate(dayNo) ==
    LET z   == dayNo + 719468
        era == z \div 146097
        doe == z - era * 146097
        yoe == (doe - doe \div 1460 + doe \div 36524 - doe \div 146096) \div 365
        doy == doe - (365 * yoe + yoe \div 4 - yoe \div 100)
        mp  == (5 * doy + 2) \div 153
        d   == doy - (153 * mp + 2) \div 5 + 1
        m   == IF mp < 10 THEN mp + 3 ELSE mp - 9
        y   == yoe + era * 400 + (IF m <= 2 THEN 1 ELSE 0)
    IN [y |-> y, m |-> m, d |-> d]

\* lines 57-65; the milliseconds of (tSec + off * 60) * 1000 only select the
\* day floor(seconds / 86400)
dayKeyFromUnixSec(tSec) ==
    LET shifted == tSec + TZ_OFFSET_MIN * 60
        d == UTCDate(shifted \div 86400)
    IN ToString(d.y) \o "-" \o pad2(d.m) \o "-" \o pad2(d.d)

unixDayStartUnshifted(tSec) == (tSec \div 86400) * 86400

\* lines 67-71
unixDayStartShifted(tSec) ==
    ((tSec + TZ_OFFSET_MIN * 60) \div 86400) * 86400 - TZ_OFFSET_MIN * 60

\* lines 83-88: the while loop over the days of one shard
RECURSIVE PushDays(_,_,_,_)
PushDays(idx, cur, end, sid) ==
    IF cur <= end
    THEN LET day == dayKeyFromUnixSec(cur)
             old == IF day \in DOMAIN idx THEN idx[day] ELSE <<>>
         IN PushDays([d \in DOMAIN idx \cup {day} |->
                         IF d = day THEN Append(old, sid) ELSE idx[d]],
                     cur + 86400, end, sid)
    ELSE idx

\* line 78: tmin == null || tmax == null
LacksBound(s) == ~("tmin" \in DOMAIN s) \/ ~("tmax" \in DOMAIN s)

NormalizeKeepDuplicates(arr) == SortAsc(Ident, arr)

\* lines 93-94: Array.from(new Set(arr)) then sort((a, b) => a - b)
NormalizeDay(arr) == SortAsc(Ident, Dedup(arr))

\* lines 44-53: the manifest is missing, or has no shards array
DateExit ==
    /\ stage = "date" /\ pc = "start"
    /\ ~dmanifest.exists \/ ~("shards" \in DOMAIN dmanifest)
    /\ pc' = "exit1"
    /\ UNCHANGED <<stage, now, run, prev>>
    /\ UNCHANGED <<sieveVars, classVars, ingestVars, filterVars, dateVars>>

DateStart ==
    /\ stage = "date" /\ pc = "start"
    /\ dmanifest.exists /\ "shards" \in DOMAIN dmanifest
    /\ pc' = "scan" /\ dpos' = 1 /\ dateIndex' = EmptyMap
    /\ UNCHANGED <<stage, now, run, prev, dmanifest, TZ_OFFSET_MIN, dateIndexFile>>
    /\ UNCHANGED <<sieveVars, classVars, ingestVars, filterVars>>

\* one iteration of the for loop of lines 75-89 that hits `continue`
DateSkipShard ==
    /\ stage = "date" /\ pc = "scan"
    /\ dpos <= Len(dmanifest.shards)
    /\ LacksBound(dmanifest.shards[dpos])
    /\ dpos' = dpos + 1
    /\ UNCHANGED <<stage, pc, now, run, prev, dmanifest, TZ_OFFSET_MIN, dateIndex,
                   dateIndexFile>>
    /\ UNCHANGED <<sieveVars, classVars, ingestVars, filterVars>>

\* one full iteration of the for loop of lines 75-89
DateScanShard ==
    /\ stage = "date" /\ pc = "scan"
    /\ dpos <= Len(dmanifest.shards)
    /\ ~LacksBound(dmanifest.shards[dpos])
    /\ LET s == dmanifest.shards[dpos]
       IN dateIndex' = PushDays(dateIndex, unixDayStartShifted(s.tmin),
                                unixDayStartShifted(s.tmax), s.sid)
    /\ dpos' = dpos + 1
    /\ UNCHANGED <<stage, pc, now, run, prev, dmanifest, TZ_OFFSET_MIN, dateIndexFile>>
    /\ UNCHANGED <<sieveVars, classVars, ingestVars, filterVars>>

\* lines 92-96
DateNormalize ==
    /\ stage = "date" /\ pc = "scan"
    /\ dpos > Len(dmanifest.shards)
    /\ dateIndex' = [day \in DOMAIN dateIndex |-> NormalizeDay(dateIndex[day])]
    /\ pc' = "write"
    /\ UNCHANGED <<stage, now, run, prev, dmanifest, TZ_OFFSET_MIN, dpos, dateIndexFile>>
    /\ UNCHANGED <<sieveVars, classVars, ingestVars, filterVars>>

\* lines 98-104
DateWrite ==
    /\ stage = "date" /\ pc = "write"
    /\ dateIndexFile' = [exists |-> TRUE, version |-> 1,
                         tz_offset_minutes |-> TZ_OFFSET_MIN,
                         created_at |-> now, days |-> dateIndex]
    /\ pc' = "done"
    /\ UNCHANGED <<stage, now, run, prev, dmanifest, TZ_OFFSET_MIN, dateIndex, dpos>>
    /\ UNCHANGED <<sieveVars, classVars, ingestVars, filterVars>>

\* the script is run again on the same manifest with the same offset, at a
\* later reading of the clock
DateRerun ==
    /\ stage = "date" /\ pc = "done" /\ run = 1
    /\ prev' = dateIndexFile
    /\ run' = 2
    /\ now' = now + 1
    /\ pc' = "start" /\ dpos' = 0 /\ dateIndex' = EmptyMap
    /\ UNCHANGED <<stage, dmanifest, TZ_OFFSET_MIN, dateIndexFile>>
    /\ UNCHANGED <<sieveVars, classVars, ingestVars, filterVars>>

\* timestamps the shards of the input manifest carry:
\* 2023-01-01T23:50:00Z, 2023-01-02T00:10:00Z, 2023-01-04T00:00:00Z
TimeStamps == {1672617000, 1672618200, 1672790400}
Offsets == {0, -480}
Sids == 0..1

\* an entry has both bounds, or lacks tmax, tmin or both; line 78 reads of a
\* lone bound only that it is there, so one value stands for all of them
LoneBound == {1672617000}

ShardEntries ==
    [sid : Sids, tmin : TimeStamps, tmax : TimeStamps]
      \cup [sid : Sids, tmin : LoneBound]
      \cup [sid : Sids, tmax : LoneBound]
      \cup [sid : Sids]

InitDate ==
    /\ stage = "date" /\ pc = "start" /\ now = 0 /\ run = 1 /\ prev = NoFile
    /\ dmanifest \in {NoFile, [exists |-> TRUE]}
                       \cup {[exists |-> TRUE, shards |-> s] :
                               s \in SeqsUpTo(ShardEntries, MaxShards)}
    /\ TZ_OFFSET_MIN \in Offsets
    /\ dateIndex = EmptyMap /\ dpos = 0 /\ dateIndexFile = NoFile
    /\ IdleSieve /\ IdleClassify /\ IdleIngest /\ IdleFilter

InitSieve ==
    /\ stage = "sieve" /\ pc = "outer" /\ now = 0 /\ run = 1 /\ prev = NoFile
    /\ \E B \in 0..MaxSieveBound :
          sieve = [B |-> B, isPrime |-> SieveNew(B), i |-> 2, j |-> 0]
    /\ IdleClassify /\ IdleIngest /\ IdleFilter /\ IdleDate

\* getPrimeType is called with up to MaxCalls ids of [0, MAX_ID_ESTIMATE]
InitClassify ==
    /\ stage = "classify" /\ pc = "run" /\ now = 0 /\ run = 1 /\ prev = NoFile
    /\ queue \in SeqsUpTo(0..MAX_ID_ESTIMATE, MaxCalls) /\ tagged = <<>>
    /\ IdleSieve /\ IdleIngest /\ IdleFilter /\ IdleDate

Init == InitSieve \/ InitClassify \/ InitIngest \/ InitDate

NextSieve ==
    \/ SieveOuterSkip \/ SieveOuterEnter \/ SieveMark \/ SieveInnerExit
    \/ SieveFinish

NextIngest ==
    \/ NextFile \/ ReadBadLine \/ ReadOtherLine \/ ReadPrimeLine \/ CloseFile
    \/ PostPass \/ ManifestThrows \/ SortAndWriteManifest
    \/ OpenDbClose \/ OpenDbCreate \/ LoopCommit \/ Insert
    \/ FinalCommit \/ FinalClose
    \/ FilterStart \/ FilterScanShard \/ FilterShardThrows \/ FilterWrite

NextDate ==
    \/ DateExit \/ DateStart \/ DateSkipShard \/ DateScanShard \/ DateNormalize
    \/ DateWrite

Next ==
    NextSieve \/ ClassifyNext \/ NextIngest \/ NextDate \/ IngestRerun \/ DateRerun

\* one run of the sieve, for any bound
SpecSieve == InitSieve /\ [][NextSieve]_vars

\* calls of the classifier on ids the sieve table covers
SpecClassify == InitClassify /\ [][ClassifyNext]_vars

\* one run of the ingest script, filter-manifest builder included, into an
\* empty output directory
SpecIngest == InitIngest /\ [][NextIngest]_vars

\* two runs of the ingest script into the same output directory, the second
\* on an export of fewer files
SpecRepeat == InitIngest /\ [][NextIngest \/ IngestRunAgain]_vars

\* one run of the date-index builder
SpecDate == InitDate /\ [][NextDate]_vars

\* any of the scripts, each possibly run a second time on the same input
Spec == Init /\ [][Next]_vars

----------------------------------------------------------------------------
(* C10: when the sieve loop has finished for a bound B, isPrime[n] = 1     *)
(* exactly for the n in [0, B) that trial division finds prime; 0 and 1    *)
(* are marked not prime.                                                   *)
C10_SieveMatchesTrialDivision ==
    (stage = "sieve" /\ pc = "done") =>
        /\ \A n \in 0..(sieve.B - 1) :
              (sieve.isPrime[n] = 1) <=> TrialPrime(n)
        /\ \A n \in {0, 1} \cap DOMAIN sieve.isPrime : sieve.isPrime[n] = 0

\* a finished sieve whose bound is a square of an odd prime, so that both
\* elimination passes (i = 2 and i = 3) have marked composites
C10_Witness ==
    /\ stage = "sieve" /\ pc = "done"
    /\ sieve.B = 25
    /\ sieve.isPrime[9] = 0 /\ sieve.isPrime[23] = 1

----------------------------------------------------------------------------
\* the shifted calendar day (as a day number) that holds second t
ShiftedDay(t) == (t + TZ_OFFSET_MIN * 60) \div 86400

DayKeyOf(n) ==
    LET d == UTCDate(n) IN ToString(d.y) \o "-" \o pad2(d.m) \o "-" \o pad2(d.d)

\* the day numbers any shard of the model can touch, and a margin
DayNumbers == 19356..19363

\* the sids of the shards with both bounds whose day range holds day n
SidsOverlapping(n) ==
    {dmanifest.shards[k].sid : k \in
        {k \in 1..Len(dmanifest.shards) :
            /\ ~LacksBound(dmanifest.shards[k])
            /\ ShiftedDay(dmanifest.shards[k].tmin) <= n
            /\ n <= ShiftedDay(dmanifest.shards[k].tmax)}}

(* C3: the date index written maps a day key D to exactly the ascending,   *)
(* duplicate-free list of the sids of the shards that have tmin and tmax   *)
(* and whose shifted days of tmin..tmax include D; no other key occurs;    *)
(* with offset 0 a shard from 2023-01-01T23:50Z to 2023-01-02T00:10Z is    *)
(* listed under 2023-01-01 and under 2023-01-02.                           *)
C3_DateIndexExact ==
    (stage = "date" /\ pc = "done") =>
        LET days == dateIndexFile.days IN
        /\ DOMAIN days = {DayKeyOf(n) : n \in {n \in DayNumbers : SidsOverlapping(n) # {}}}
        /\ \A n \in DayNumbers :
              SidsOverlapping(n) # {} =>
                  days[DayKeyOf(n)] = AscendingSeqOf(SidsOverlapping(n))
        /\ \A k \in 1..Len(dmanifest.shards) :
              LET s == dmanifest.shards[k] IN
              (/\ TZ_OFFSET_MIN = 0 /\ ~LacksBound(s)
               /\ s.tmin = 1672617000 /\ s.tmax = 1672618200) =>
                  /\ "2023-01-01" \in DOMAIN days /\ s.sid \in Range(days["2023-01-01"])
                  /\ "2023-01-02" \in DOMAIN days /\ s.sid \in Range(days["2023-01-02"])

\* the index of a manifest in which shard 1 is listed twice over the two
\* days around midnight and a shard without tmax is skipped
C3_Witness ==
    /\ stage = "date" /\ pc = "done" /\ TZ_OFFSET_MIN = 0
    /\ Len(dmanifest.shards) = 2
    /\ dmanifest.shards[1] = [sid |-> 1, tmin |-> 1672617000, tmax |-> 1672618200]
    /\ dmanifest.shards[2] = [sid |-> 0, tmin |-> 1672617000]
    /\ dateIndexFile.days = ("2023-01-01" :> <<1>> @@ "2023-01-02" :> <<1>>)

----------------------------------------------------------------------------
(* What the input holds, read off the files independently of the run.      *)

RECURSIVE Flatten(_)
Flatten(fs) == IF fs = <<>> THEN <<>> ELSE Head(fs) \o Flatten(Tail(fs))

\* the records of the well-formed lines
InputItems == {l.item : l \in {l \in Range(Flatten(files)) : l.json}}

\* those with a prime identifier below the bound
RetainedItems == {r \in InputItems : r.id < MAX_ID_ESTIMATE /\ TrialPrime(r.id)}

RetainedIds == {r.id : r \in RetainedItems}

\* the shard files the current run has created
OwnShards == {k \in DOMAIN shards : shards[k].run = run}

\* the rows of the shards in S, read in ascending shard index and, within a
\* shard, in ascending idx
RowsInOrder(S) ==
    LET byIdx(r) == r.idx
        RECURSIVE Cat(_)
        Cat(ks) == IF ks = <<>> THEN <<>>
                   ELSE SortAsc(byIdx, shards[Head(ks)].rows) \o Cat(Tail(ks))
    IN Cat(AscendingSeqOf(S))

ShardLoopFinished == stage = "filter"

(* C1: once the shard loop has finished, the rows of the run's partitions, *)
(* read in ascending partition index and ascending idx, are the retained   *)
(* records in ascending identifier order, each once; the row of rank r has *)
(* idx = r and lies in partition r \div SHARD_SIZE, so partition k holds   *)
(* exactly the ranks of [k * SHARD_SIZE, (k + 1) * SHARD_SIZE).            *)
C1_ShardsAreSortedPartition ==
    ShardLoopFinished =>
        LET rows == RowsInOrder(OwnShards)
            N    == Cardinality(RetainedIds)
        IN /\ Len(rows) = N
           /\ {rows[x].id : x \in 1..Len(rows)} = RetainedIds
           /\ \A x \in 1..Len(rows) : rows[x].idx = x - 1
           /\ \A x \in 1..(Len(rows) - 1) : rows[x].id < rows[x + 1].id
           /\ \A k \in OwnShards :
                 {shards[k].rows[x].idx : x \in 1..Len(shards[k].rows)}
                    = {r \in 0..(N - 1) :
                          k * SHARD_SIZE <= r /\ r < (k + 1) * SHARD_SIZE}
           /\ OwnShards = {r \div SHARD_SIZE : r \in 0..(N - 1)}

\* three records read in descending identifier order end up as the
\* partitions [2, 3] and [5]
C1_Witness ==
    /\ ShardLoopFinished /\ run = 1
    /\ Len(Flatten(files)) = 3
    /\ Flatten(files)[1].json /\ Flatten(files)[1].item.id = 5
    /\ Flatten(files)[2].json /\ Flatten(files)[2].item.id = 3
    /\ Flatten(files)[3].json /\ Flatten(files)[3].item.id = 2
    /\ DOMAIN shards = {0, 1}
    /\ Len(shards[0].rows) = 2 /\ shards[0].rows[1].id = 2 /\ shards[0].rows[2].id = 3
    /\ Len(shards[1].rows) = 1 /\ shards[1].rows[1].id = 5 /\ shards[1].rows[1].idx = 2

----------------------------------------------------------------------------
\* the rows of shard k whose tag string holds the token pattern of a filter
Matching(k, filter) ==
    {x \in 1..Len(shards[k].rows) :
        /\ "prime_type" \in DOMAIN shards[k].rows[x]
        /\ LET str == shards[k].rows[x].prime_type
               pat == LikePattern(filter)
               n   == Len(pat)
           IN \E a \in 1..Len(str) :
                 a + n - 1 <= Len(str) /\ SubSeq(str, a, a + n - 1) = pat}

FilterManifestWritten ==
    stage = "filter" /\ pc = "done" /\ filterManifestFile.run = run

(* C2: in the filter manifest written, for every category the entries are  *)
(* in ascending partition index, one for each partition with a match and   *)
(* none for the others; every count is > 0 and is the number of rows of    *)
(* that partition whose tag string holds the category's pattern; every     *)
(* cumulative is the sum of the counts up to and including its entry; the  *)
(* total is the last cumulative and the number of matching rows of all     *)
(* partitions (0, with no entry, when nothing matches).                    *)
C2_FilterManifestCounts ==
    FilterManifestWritten =>
        \A f \in Range(FILTER_TYPES) :
            LET m == filterManifestFile.filters[f]
                n == Len(m.shards)
            IN /\ \A x \in 1..(n - 1) : m.shards[x].idx < m.shards[x + 1].idx
               /\ {m.shards[x].idx : x \in 1..n}
                     = {k \in DOMAIN shards : Matching(k, f) # {}}
               /\ \A x \in 1..n :
                     /\ m.shards[x].count > 0
                     /\ m.shards[x].count = Cardinality(Matching(m.shards[x].idx, f))
                     /\ m.shards[x].cumulative
                           = SumSeq([y \in 1..x |-> m.shards[y].count])
               /\ \A x \in 1..(n - 1) :
                     m.shards[x].cumulative <= m.shards[x + 1].cumulative
               /\ m.total = (IF n = 0 THEN 0 ELSE m.shards[n].cumulative)
               /\ m.total = SumSeq([y \in 1..Len(shardFiles) |->
                                       Cardinality(Matching(shardFiles[y], f))])

\* ids 2, 3 and 5 in two partitions: germain is counted 2 then 1, mersenne
\* only in partition 0, and pkesqrt nowhere
C2_Witness ==
    /\ FilterManifestWritten
    /\ filterManifestFile.filters["germain"].shards
          = << [idx |-> 0, count |-> 2, cumulative |-> 2],
               [idx |-> 1, count |-> 1, cumulative |-> 3] >>
    /\ filterManifestFile.filters["mersenne"] =
          [total |-> 1, shards |-> <<[idx |-> 0, count |-> 1, cumulative |-> 1]>>]
    /\ filterManifestFile.filters["pkesqrt"] = [total |-> 0, shards |-> <<>>]

----------------------------------------------------------------------------
\* the number of partitions the run's manifest announces
AnnouncedShards ==
    (manifestFile.totalPrimes + manifestFile.shardSize - 1) \div manifestFile.shardSize

(* C4: whenever the primary manifest of the run is on disk, every          *)
(* partition of the run has been written and committed.                    *)
C4_ManifestOnlyAfterAllShards ==
    (stage \in {"ingest", "filter"} /\ manifestFile.exists /\ manifestFile.run = run) =>
        \A k \in 0..(AnnouncedShards - 1) :
            k \in OwnShards /\ shards[k].committed

----------------------------------------------------------------------------
(* C5: whatever the lines of the export (one at least), the run does not   *)
(* abort: bad lines are dropped, the retained set is the records of the    *)
(* well-formed lines with a prime identifier below the bound, and the run  *)
(* goes on through sorting, partition writing and manifest writing.        *)
C5_RunNeverAborts ==
    /\ Flatten(files) # <<>> => ~(stage = "ingest" /\ pc = "crashed")
    /\ (stage = "ingest" /\ pc = "sort") =>
          {collectedPrimes[x].id : x \in 1..Len(collectedPrimes)} = RetainedIds

----------------------------------------------------------------------------
(* C6: when the filter-manifest builder has stopped, every partition file  *)
(* it listed has been gone through (a failing one reported, the others     *)
(* counted) and the manifest with the accumulated counts is written.       *)
C6_ScanContinuesAfterFailure ==
    (stage = "filter" /\ pc \in {"done", "crashed"}) =>
        /\ fpos > Len(shardFiles)
        /\ filterManifestFile.exists /\ filterManifestFile.run = run

----------------------------------------------------------------------------
(* C7: during the ingest run at most one database handle is open; at most  *)
(* one partition file is uncommitted; and every partition of the run below *)
(* another partition of the run is committed and closed, so a partition is *)
(* committed and closed before the file of the next one is created.        *)
C7_OneOpenShard ==
    stage = "ingest" =>
        /\ Cardinality(open) <= 1
        /\ Cardinality({k \in DOMAIN shards : ~shards[k].committed}) <= 1
        /\ \A k, j \in OwnShards :
              k < j => shards[k].committed /\ k \notin open
        /\ (pc = "switch" /\ db = NoDb) =>
              \A k \in OwnShards : shards[k].committed /\ k \notin open

\* partition 0 is committed and closed, partition 1 is open and holds an
\* uncommitted row
C7_Witness ==
    /\ stage = "ingest" /\ pc = "loop"
    /\ open = {1} /\ db = 1
    /\ shards[0].committed /\ Len(shards[0].rows) = SHARD_SIZE
    /\ ~shards[1].committed /\ Len(shards[1].rows) = 1

----------------------------------------------------------------------------
\* the post-pass of lines 373-379 has run
PostPassDone ==
    \/ stage = "ingest" /\ pc \in {"sort", "open0", "loop", "switch", "close"}
    \/ stage = "filter"

RetainedStories(v) ==
    {r \in RetainedItems : r.type = "story" /\ "score" \in DOMAIN r /\ r.score = v}

\* the earliest story of score v, the smaller identifier winning a tie
EarliestStory(v) ==
    CHOOSE r \in RetainedStories(v) :
        \A q \in RetainedStories(v) :
            r.time < q.time \/ (r.time = q.time /\ r.id <= q.id)

\* the retained records that carry a posts token of score v
Carriers(v) ==
    {x \in 1..Len(collectedPrimes) :
        /\ "pt" \in DOMAIN collectedPrimes[x]
        /\ Like(collectedPrimes[x].pt, "posts:" \o ToString(v) \o "-")}

ScoreValues == {r.score : r \in {r \in InputItems : "score" \in DOMAIN r}}

PostsTokenOnEarliest(v) ==
    IF RetainedStories(v) = {} \/ ~TrialPrime(v)
    THEN Carriers(v) = {}
    ELSE LET e == EarliestStory(v) IN
         /\ Cardinality(Carriers(v)) = 1
         /\ \A x \in Carriers(v) :
               /\ collectedPrimes[x].id = e.id
               /\ Like(collectedPrimes[x].pt,
                       "posts:" \o ToString(v) \o "-" \o ToString(e.time))

(* C8: after the post-pass, for every prime score v of a retained story    *)
(* exactly one retained record carries posts:v-<time>, the earliest story  *)
(* of score v (smaller identifier on a tie); no other record carries a     *)
(* posts token of v.                                                       *)
C8_EveryPrimeScoreTagged ==
    PostPassDone => \A v \in ScoreValues : PostsTokenOnEarliest(v)

(* What the post-pass does ensure: the same for every prime score v that   *)
(* the sieve table covers (v <= MAX_ID_ESTIMATE); line 353 reads           *)
(* isPrime[score] whatever the score, and past the end of the table the    *)
(* read is undefined, so that a larger score gets no posts token.          *)
C8_PrimeScoreInTableTagged ==
    PostPassDone =>
        \A v \in ScoreValues :
            IF v <= MAX_ID_ESTIMATE THEN PostsTokenOnEarliest(v)
            ELSE Carriers(v) = {}

\* ids 3 and 2 share score 7 and time 10 and are read in that order, a
\* comment of score 7 is older: the token is on id 2
C8_Witness ==
    /\ PostPassDone /\ stage = "ingest" /\ pc = "sort"
    /\ Len(collectedPrimes) = 3
    /\ collectedPrimes[1].id = 11 /\ collectedPrimes[2].id = 3
    /\ collectedPrimes[3].id = 2
    /\ collectedPrimes[3].pt = "germain,palindrome,posts:7-10"
    /\ Carriers(7) = {3}

----------------------------------------------------------------------------
WithoutField(r, f) == [x \in DOMAIN r \ {f} |-> r[x]]

SecondRunDone ==
    \/ stage = "filter" /\ run = 2
    \/ stage = "date" /\ pc = "done" /\ run = 2

\* every partition file holds the rows it held after the first run, each once
SameRowSets ==
    /\ DOMAIN shards = DOMAIN prev.shards
    /\ \A k \in DOMAIN shards :
          /\ Range(shards[k].rows) = Range(prev.shards[k].rows)
          /\ Len(shards[k].rows) = Len(prev.shards[k].rows)

\* once the second run has written its filter manifest, it is the first one's
SameFilterManifest ==
    pc = "done" => filterManifestFile.filters = prev.filter.filters

(* C9 as claimed: a second run on the same input and configuration leaves  *)
(* the same primary manifest, the same date index document and the same    *)
(* rows in every partition as the first.                                   *)
C9_RerunIdentical ==
    SecondRunDone =>
        IF stage = "date"
        THEN dateIndexFile = prev
        ELSE /\ WithoutField(manifestFile, "run") = WithoutField(prev.manifest, "run")
             /\ SameRowSets
             /\ SameFilterManifest

(* C9 as amended: the same, except for the generation time stamps          *)
(* (generatedAt of the primary manifest, created_at of the date index),    *)
(* which are the clock readings of each run.                               *)
C9_RerunIdenticalButTimestamps ==
    SecondRunDone =>
        IF stage = "date"
        THEN WithoutField(dateIndexFile, "created_at") = WithoutField(prev, "created_at")
        ELSE /\ WithoutField(WithoutField(manifestFile, "run"), "generatedAt")
                  = WithoutField(WithoutField(prev.manifest, "run"), "generatedAt")
             /\ SameRowSets
             /\ SameFilterManifest

\* a second ingest run that has rewritten two partitions at a later time
C9_Witness ==
    /\ stage = "filter" /\ pc = "done" /\ run = 2
    /\ now = 1 /\ prev.manifest.generatedAt = 0 /\ manifestFile.generatedAt = 1
    /\ DOMAIN shards = {0, 1} /\ OwnShards = {0, 1}
    /\ Len(shards[1].rows) = 1

----------------------------------------------------------------------------
\* the tag string a call returned holds the token
HasToken(pt, token) == ~pt.null /\ Like(pt.str, token)

\* the ids called with so far that got the token
TaggedWith(token) ==
    {tagged[x].id : x \in {x \in 1..Len(tagged) : HasToken(tagged[x].pt, token)}}

CalledIds == {tagged[x].id : x \in 1..Len(tagged)}

(* C11: for every n of [0, B] getPrimeType was called with, the tag string *)
(* holds germain exactly when n is prime, 2n+1 <= B and 2n+1 is prime (it  *)
(* is absent when 2n+1 > B); with B = 20 the primes below 20 that carry it *)
(* are 2, 3 and 5 and no other.                                            *)
C11_GermainTag ==
    stage = "classify" =>
        /\ \A x \in 1..Len(tagged) :
              LET n == tagged[x].id IN
              HasToken(tagged[x].pt, "germain") <=>
                  (TrialPrime(n) /\ 2 * n + 1 <= MAX_ID_ESTIMATE /\ TrialPrime(2 * n + 1))
        /\ MAX_ID_ESTIMATE = 20 =>
              TaggedWith("germain") = CalledIds \cap {2, 3, 5}

\* 5 is tagged (11 is prime and within the bound), 11 is not (23 is prime
\* but beyond the bound)
C11_Witness ==
    /\ stage = "classify" /\ queue = <<>>
    /\ Len(tagged) = 2 /\ tagged[1].id = 5 /\ tagged[2].id = 11
    /\ HasToken(tagged[1].pt, "germain") /\ ~HasToken(tagged[2].pt, "germain")

----------------------------------------------------------------------------
\* n is written with an even number of decimal digits
EvenDigits(n) == Len(ToString(n)) % 2 = 0

\* n would be retained by the ingest: prime and below the bound
RetainedId(n) == n < MAX_ID_ESTIMATE /\ TrialPrime(n)

(* C12: for every retained identifier n with an even number of digits the  *)
(* tag string getPrimeType(n) returns does not hold the palindrome token.  *)
C12_NoPalindromeOnEvenDigits ==
    stage = "classify" =>
        \A x \in 1..Len(tagged) :
            (RetainedId(tagged[x].id) /\ EvenDigits(tagged[x].id)) =>
                ~HasToken(tagged[x].pt, "palindrome")

(* C12 as amended: for every retained identifier n with an even number of  *)
(* digits the tag string holds the palindrome token exactly when n = 11,   *)
(* the one prime that is an even-digit palindrome.                         *)
C12_PalindromeOnEvenDigitsOnly11 ==
    stage = "classify" =>
        \A x \in 1..Len(tagged) :
            (RetainedId(tagged[x].id) /\ EvenDigits(tagged[x].id)) =>
                (HasToken(tagged[x].pt, "palindrome") <=> tagged[x].id = 11)

\* 11 carries the token, 13 does not
C12_Witness ==
    /\ stage = "classify" /\ queue = <<>>
    /\ Len(tagged) = 2 /\ tagged[1].id = 11 /\ tagged[2].id = 13
    /\ HasToken(tagged[1].pt, "palindrome") /\ ~HasToken(tagged[2].pt, "palindrome")

----------------------------------------------------------------------------
\* the number of partitions of the N retained records of the current export
PartitionsOfRun == (Cardinality(RetainedIds) + SHARD_SIZE - 1) \div SHARD_SIZE

(* C13: after whatever runs into the same output directory, the partition  *)
(* files the filter-manifest builder lists are the partitions             *)
(* 0 .. ceil(N/S)-1 of the latest run and no other, and the total it       *)
(* writes for each category is the number of matching rows of the latest   *)
(* run.                                                                    *)
C13_OnlyLatestRunScanned ==
    /\ (stage = "filter" /\ pc \in {"scan", "done"}) =>
          /\ Range(shardFiles) = 0..(PartitionsOfRun - 1)
          /\ \A x \in 1..Len(shardFiles) : shards[shardFiles[x]].run = run
    /\ FilterManifestWritten =>
          \A f \in Range(FILTER_TYPES) :
              filterManifestFile.filters[f].total
                 = SumSeq([y \in 1..PartitionsOfRun |->
                              Cardinality(Matching(y - 1, f))])

=============================================================================
